---- MODULE Spec2Model ----
(***************************************************************************)
(* Model of the Telegram broadcasting bot (src/bot.py): the conversation   *)
(* wizard that collects a post (image, title, description, url button),    *)
(* the chat registry kept by ChatStorage, and the broadcast loop of        *)
(* confirm_send.                                                           *)
(*                                                                         *)
(* Strings that the code inspects (strip, split, startswith, slicing) are  *)
(* sequences of one-character strings.  Optional values are None == <<>>   *)
(* or Some(x) == <<x>>, so that the empty string and None stay distinct.   *)
(*                                                                         *)
(* Updates are handled one at a time (the Application is built without     *)
(* concurrent updates and every handler is blocking), so a handler runs    *)
(* to its end before the next update is dispatched.  Replies to the        *)
(* operator (prompts, warnings, the report) are taken to be delivered;     *)
(* the calls made to destinations (get_chat_member, send_message,          *)
(* send_photo) may each return or raise.  Every operator talks to the bot  *)
(* in one chat, so the conversation key (chat, user) is given by the user. *)
(*                                                                         *)
(* Spec is one operator with the registry and the broadcast; SpecText is   *)
(* one operator with the texts at the limits of every step; SpecQueue adds *)
(* updates that arrive while confirm_send runs and wait in `queue`;        *)
(* SpecTwo is two operators with one chat; SpecMany starts with more chats *)
(* loaded than a report lists failures; FairQueue is SpecQueue in which    *)
(* the loop of confirm_send goes on.                                       *)
(***************************************************************************)
EXTENDS Integers, Sequences, FiniteSets, TLC

\* ------------------------------------------------------------------ bounds
MaxChats == 2            \* number of destination chats that can be tracked
MaxQueue == 1            \* updates that can wait while confirm_send runs

\* ------------------------------------------------------- program constants
SELECTING_ACTION == 0
UPLOADING_IMAGE == 1
ENTERING_TITLE == 2
ENTERING_DESCRIPTION == 3
ENTERING_URL == 4
PREVIEW == 5
END == -1                \* ConversationHandler.END: no conversation running

MaxTitleLen == 200
MaxDescriptionLen == 1000
ReasonLen == 30
ShownFailures == 5

\* ------------------------------------------------------------ option type
None == <<>>
Some(x) == <<x>>
IsSome(v) == v # None
Get(v) == v[1]

\* ---------------------------------------------------------------- strings
Rep(c, n) == [i \in 1..n |-> c]

IsSpace(c) == c \in {" ", "\t", "\n"}

RECURSIVE lstrip(_)
lstrip(s) == IF s = <<>> \/ ~IsSpace(Head(s)) THEN s ELSE lstrip(Tail(s))

RECURSIVE rstrip(_)
rstrip(s) == IF s = <<>> \/ ~IsSpace(s[Len(s)]) THEN s
             ELSE rstrip(SubSeq(s, 1, Len(s) - 1))

\* str.strip()
strip(s) == rstrip(lstrip(s))

\* c in s
Contains(s, c) == \E i \in 1..Len(s) : s[i] = c

\* s.split(c, 1): one part when c does not occur, else the parts to the
\* left and to the right of the first c
split1(s, c) ==
    IF ~Contains(s, c) THEN <<s>>
    ELSE LET p == CHOOSE i \in 1..Len(s) :
                      s[i] = c /\ \A j \in 1..(i - 1) : s[j] # c
         IN  <<SubSeq(s, 1, p - 1), SubSeq(s, p + 1, Len(s))>>

\* s.startswith(prefix)
startswith(s, prefix) ==
    Len(s) >= Len(prefix) /\ SubSeq(s, 1, Len(prefix)) = prefix

\* s[:n]
Take(s, n) == SubSeq(s, 1, IF Len(s) < n THEN Len(s) ELSE n)

HTTP == <<"h","t","t","p",":","/","/">>
HTTPS == <<"h","t","t","p","s",":","/","/">>
CLICK_HERE == <<"C","l","i","c","k"," ","H","e","r","e">>
NOT_ADMIN == <<"n","o","t"," ","a","d","m","i","n">>

\* ----------------------------------------------------------------- inputs
Users == {1, 2}               \* operators (Telegram user ids); user_data
                              \* and the conversation are kept per user
Operators == {1}              \* the operator of the one-operator models
Chats == 1..MaxChats          \* destination chat ids
PrivateChat == MaxChats + 1   \* a chat of type private

PhotoIds == {"f1"}            \* file ids of uploaded photos

\* " Hi\n"
TxtShort == <<" ","H","i","\n">>
\* "https://x | Go "
TxtUrl == <<"h","t","t","p","s",":","/","/","x"," ","|"," ","G","o"," ">>
\* "http://x | "
TxtUrlNoButton == <<"h","t","t","p",":","/","/","x"," ","|"," ">>
\* "x.c | Go"
TxtNoScheme == <<"x",".","c"," ","|"," ","G","o">>
\* "https://x"
TxtNoPipe == <<"h","t","t","p","s",":","/","/","x">>
\* " |Go"
TxtEmptyUrl == <<" ","|","G","o">>
\* "Https://x|a|b"
TxtUpperScheme == <<"H","t","t","p","s",":","/","/","x","|","a","|","b">>
\* "http://x|a|b "
TxtTwoPipes == <<"h","t","t","p",":","/","/","x","|","a","|","b"," ">>

\* texts an operator sends in the full model
TextInputs == {TxtShort, TxtUrl}

\* texts at the limits of each step
TitleInputs == {TxtShort,
                <<" ">> \o Rep("a", MaxTitleLen) \o <<"\n">>,
                Rep("a", MaxTitleLen + 1),
                <<" ">> \o Rep("a", MaxTitleLen + 1)}
DescriptionInputs == {TxtShort,
                      <<"\t">> \o Rep("d", MaxDescriptionLen) \o <<" ">>,
                      Rep("d", MaxDescriptionLen + 1)}
UrlInputs == {TxtUrl, TxtUrlNoButton, TxtNoScheme, TxtNoPipe, TxtEmptyUrl,
              TxtUpperScheme, TxtTwoPipes}

\* chat_member.status values returned by get_chat_member
Statuses == {"administrator", "creator", "member"}
\* my_chat_member.new_chat_member.status values
NewStatuses == {"administrator", "left", "kicked"}

\* str(e) of an exception raised by get_chat_member: "Chat not found"
QueryError == <<"C","h","a","t"," ","n","o","t"," ","f","o","u","n","d">>
\* str(e) of an exception raised by a send:
\* "Forbidden: bot is not a member of the channel chat"
SendError == <<"F","o","r","b","i","d","d","e","n",":"," ","b","o","t"," ",
               "i","s"," ","n","o","t"," ","a"," ","m","e","m","b","e","r",
               " ","o","f"," ","t","h","e"," ","c","h","a","n","n","e","l",
               " ","c","h","a","t">>

\* title and type of a chat, as the platform reports them
ChatTitle(c) == IF c = PrivateChat THEN "P" ELSE IF c % 2 = 1 THEN "G" ELSE "C"
ChatTypeOf(c) == IF c = PrivateChat THEN "private"
                 ELSE IF c % 3 = 1 THEN "supergroup"
                 ELSE IF c % 3 = 2 THEN "channel" ELSE "group"

\* ------------------------------------------------------------------ state
VARIABLES
    state,      \* conversation state of each user (END when none is running)
    user_data,  \* context.user_data of each user: None or Some(post)
    chats,      \* chat_storage.chats in insertion order: records id/title/type
    bc,         \* locals of a running confirm_send
    last,       \* the update being handled, or handled last
    calls,      \* calls to destinations made while handling `last`
    reply,      \* what handling `last` showed to the operator
    queue       \* updates that arrived while confirm_send was running

vars == <<state, user_data, chats, bc, last, calls, reply, queue>>

EmptyPost == [image |-> None, title |-> None, description |-> None,
              url |-> None, button_text |-> None]

NoUpdate == [user |-> 0, kind |-> "none", data |-> "", text |-> <<>>, chat |-> 0]
Update(u, k, d, t, c) == [user |-> u, kind |-> k, data |-> d, text |-> t, chat |-> c]
Command(u, name) == Update(u, "command", name, <<>>, 0)
Text(u, t) == Update(u, "text", "", t, 0)
Photo(u, f) == Update(u, "photo", f, <<>>, 0)
Callback(u, d) == Update(u, "callback", d, <<>>, 0)

BcIdle == [pc |-> "idle", user |-> 0, i |-> 0, targets |-> <<>>,
           success_count |-> 0, failed_count |-> 0, failed_chats |-> <<>>]

Reply(k) == [kind |-> k, success |-> 0, failed |-> 0, total |-> 0,
             shown |-> <<>>, more |-> 0]

\* no confirm_send is running: the next update can be dispatched
Idle == bc.pc = "idle"

HasPost(u) == IsSome(user_data[u])
Post(u) == Get(user_data[u])

\* as SetPost, one post shared by every user
SetPost_Shared(u, p) == user_data' = [v \in Users |-> Some(p)]

\* context.user_data['post'] = ..., the data of the update's user
SetPost(u, p) == user_data' = [user_data EXCEPT ![u] = Some(p)]

Init ==
    /\ state = [u \in Users |-> END]
    /\ user_data = [u \in Users |-> None]
    /\ chats = <<>>
    /\ bc = BcIdle
    /\ last = NoUpdate
    /\ calls = <<>>
    /\ reply = Reply("none")
    /\ queue = <<>>

\* ---------------------------------------------------------------- routing
CallbackData == {"cmd_newpost", "cmd_listchats", "cmd_help", "cmd_start",
                 "skip_image", "skip_description", "skip_url", "cancel",
                 "confirm_send"}
Commands == {"start", "help", "listchats", "newpost", "cancel"}

IsCommand(upd, name) == upd.kind = "command" /\ upd.data = name
IsCallback(upd, d) == upd.kind = "callback" /\ upd.data = d

\* as Fallback, confirm_send among the fallbacks
Fallback_WithConfirm(upd) ==
    IF IsCommand(upd, "cancel") \/ IsCallback(upd, "cancel") THEN "cancel"
    ELSE IF IsCallback(upd, "confirm_send") THEN "confirm_send"
    ELSE "none"

\* fallbacks of the ConversationHandler
Fallback(upd) ==
    IF IsCommand(upd, "cancel") \/ IsCallback(upd, "cancel")
    THEN "cancel" ELSE "none"

\* The callback the ConversationHandler runs for an update of a user whose
\* conversation is in state s: the entry points when no conversation is
\* running, else the handlers of the state and then the fallbacks ("none":
\* the ConversationHandler does not take the update).
ConvHandler(s, upd) ==
    IF s = END THEN
        IF IsCommand(upd, "newpost") \/ IsCallback(upd, "cmd_newpost")
        THEN "new_post" ELSE "none"
    ELSE IF s = UPLOADING_IMAGE /\ upd.kind = "photo" THEN "handle_image"
    ELSE IF s = UPLOADING_IMAGE /\ IsCallback(upd, "skip_image") THEN "skip_image"
    ELSE IF s = ENTERING_TITLE /\ upd.kind = "text" THEN "handle_title"
    ELSE IF s = ENTERING_DESCRIPTION /\ upd.kind = "text" THEN "handle_description"
    ELSE IF s = ENTERING_DESCRIPTION /\ IsCallback(upd, "skip_description")
         THEN "skip_description"
    ELSE IF s = ENTERING_URL /\ upd.kind = "text" THEN "handle_url"
    ELSE IF s = ENTERING_URL /\ IsCallback(upd, "skip_url") THEN "skip_url"
    ELSE IF s = PREVIEW /\ IsCallback(upd, "confirm_send") THEN "confirm_send"
    ELSE Fallback(upd)

\* The callback the Application runs for an update: the first handler, in
\* the order in which main() adds them, that takes it.
AppHandler(s, upd) ==
    IF \E c \in {"start", "help", "listchats"} : IsCommand(upd, c) THEN "menu"
    ELSE IF ConvHandler(s, upd) # "none" THEN ConvHandler(s, upd)
    ELSE IF upd.kind = "callback" THEN "button_callback"
    ELSE IF upd.kind = "new_chat_members" THEN "track_chat"
    ELSE IF upd.kind = "my_chat_member" THEN "track_chat_removal"
    ELSE "none"

\* Updates are handled in the order of their arrival: upd is dispatched
\* when no handler is running and no earlier update waits.
Ready(upd) == Idle /\ (IF queue = <<>> THEN TRUE ELSE Head(queue) = upd)
Rest == IF queue = <<>> THEN queue ELSE Tail(queue)

Routed(u, upd, h) == Ready(upd) /\ upd.user = u /\ AppHandler(state[u], upd) = h

\* a handler of user u ended: its return value s becomes the state
Handled(u, upd, s, r) ==
    /\ state' = [state EXCEPT ![u] = s]
    /\ last' = upd
    /\ reply' = r
    /\ calls' = <<>>
    /\ queue' = Rest
    /\ UNCHANGED <<chats, bc>>

\* a handler raised: the conversation keeps its state
Raised(u, upd) ==
    /\ last' = upd
    /\ reply' = Reply("error")
    /\ calls' = <<>>
    /\ queue' = Rest
    /\ UNCHANGED <<state, user_data, chats, bc>>

\* ----------------------------------------------------------------- wizard
\* entry point: /newpost or the cmd_newpost button, no conversation running
NewPost(u, upd) ==
    /\ Routed(u, upd, "new_post")
    /\ SetPost(u, EmptyPost)
    /\ Handled(u, upd, UPLOADING_IMAGE, Reply("ask_image"))

HandleImage(u, upd) ==
    /\ Routed(u, upd, "handle_image")
    /\ IF HasPost(u)
       THEN /\ SetPost(u, [Post(u) EXCEPT !.image = Some(upd.data)])
            /\ Handled(u, upd, ENTERING_TITLE, Reply("ask_title"))
       ELSE Raised(u, upd)

\* as SkipImage, the title step passed over
SkipImage_PastTitle(u, upd) ==
    /\ Routed(u, upd, "skip_image")
    /\ IF HasPost(u)
       THEN /\ SetPost(u, [Post(u) EXCEPT !.image = None])
            /\ Handled(u, upd, ENTERING_DESCRIPTION, Reply("ask_description"))
       ELSE Raised(u, upd)

\* skip_image
SkipImage(u, upd) ==
    /\ Routed(u, upd, "skip_image")
    /\ IF HasPost(u)
       THEN /\ SetPost(u, [Post(u) EXCEPT !.image = None])
            /\ Handled(u, upd, ENTERING_TITLE, Reply("ask_title"))
       ELSE Raised(u, upd)

\* as TitleTooLong, off by one
TitleTooLong_AtLimit(title) == Len(title) >= MaxTitleLen

\* len(title) > 200
TitleTooLong(title) == Len(title) > MaxTitleLen

HandleTitle(u, upd) ==
    /\ Routed(u, upd, "handle_title")
    /\ LET title == strip(upd.text) IN
       IF TitleTooLong(title)
       THEN /\ UNCHANGED user_data
            /\ Handled(u, upd, ENTERING_TITLE, Reply("title_too_long"))
       ELSE IF HasPost(u)
       THEN /\ SetPost(u, [Post(u) EXCEPT !.title = Some(title)])
            /\ Handled(u, upd, ENTERING_DESCRIPTION, Reply("ask_description"))
       ELSE Raised(u, upd)

\* as DescriptionTooLong, the limit itself refused
DescriptionTooLong_AtLimit(description) ==
    Len(description) >= MaxDescriptionLen

\* len(description) > 1000
DescriptionTooLong(description) == Len(description) > MaxDescriptionLen

HandleDescription(u, upd) ==
    /\ Routed(u, upd, "handle_description")
    /\ LET description == strip(upd.text) IN
       IF DescriptionTooLong(description)
       THEN /\ UNCHANGED user_data
            /\ Handled(u, upd, ENTERING_DESCRIPTION,
                       Reply("description_too_long"))
       ELSE IF HasPost(u)
       THEN /\ SetPost(u, [Post(u) EXCEPT !.description = Some(description)])
            /\ Handled(u, upd, ENTERING_URL, Reply("ask_url"))
       ELSE Raised(u, upd)

\* as SkipDescription, the whole post emptied
SkipDescription_EmptiesPost(u, upd) ==
    /\ Routed(u, upd, "skip_description")
    /\ IF HasPost(u)
       THEN /\ SetPost(u, EmptyPost)
            /\ Handled(u, upd, ENTERING_URL, Reply("ask_url"))
       ELSE Raised(u, upd)

\* skip_description
SkipDescription(u, upd) ==
    /\ Routed(u, upd, "skip_description")
    /\ IF HasPost(u)
       THEN /\ SetPost(u, [Post(u) EXCEPT !.description = None])
            /\ Handled(u, upd, ENTERING_URL, Reply("ask_url"))
       ELSE Raised(u, upd)

\* show_preview: the preview shows the number of chats stored now
Preview(p) == [Reply(IF IsSome(p.image) /\ Get(p.image) # ""
                     THEN "preview_photo" ELSE "preview_text")
               EXCEPT !.total = Len(chats)]

\* the url and the button text handle_url takes from a line that has a '|'
ParsedUrl(text) == strip(split1(text, "|")[1])
ParsedButtonText(text) ==
    LET parts == split1(text, "|")
    IN  IF Len(parts) > 1 THEN strip(parts[2]) ELSE CLICK_HERE

\* as ValidScheme, the test inverted
ValidScheme_Inverted(url) == ~(startswith(url, HTTP) \/ startswith(url, HTTPS))

\* url.startswith('http://') or url.startswith('https://')
ValidScheme(url) == startswith(url, HTTP) \/ startswith(url, HTTPS)

\* as WithUrl, the button text not stored
WithUrl_UrlOnly(p, text) == [p EXCEPT !.url = Some(ParsedUrl(text))]

\* post['url'] = url; post['button_text'] = button_text
WithUrl(p, text) ==
    [p EXCEPT !.url = Some(ParsedUrl(text)),
              !.button_text = Some(ParsedButtonText(text))]

HandleUrl(u, upd) ==
    /\ Routed(u, upd, "handle_url")
    /\ LET text == strip(upd.text) IN
       IF ~Contains(text, "|")
       THEN /\ UNCHANGED user_data
            /\ Handled(u, upd, ENTERING_URL, Reply("invalid_format"))
       ELSE IF ~ValidScheme(ParsedUrl(text))
       THEN /\ UNCHANGED user_data
            /\ Handled(u, upd, ENTERING_URL, Reply("invalid_url"))
       ELSE IF HasPost(u)
       THEN LET p == WithUrl(Post(u), text)
            IN  /\ SetPost(u, p)
                /\ Handled(u, upd, PREVIEW, Preview(p))
       ELSE Raised(u, upd)

SkipUrl(u, upd) ==
    /\ Routed(u, upd, "skip_url")
    /\ IF HasPost(u)
       THEN LET p == [Post(u) EXCEPT !.url = None, !.button_text = None]
            IN  /\ SetPost(u, p)
                /\ Handled(u, upd, PREVIEW, Preview(p))
       ELSE Raised(u, upd)

\* as Cancel, user_data not cleared
Cancel_KeepsData(u, upd) ==
    /\ Routed(u, upd, "cancel")
    /\ UNCHANGED user_data
    /\ Handled(u, upd, END, Reply("cancelled"))

\* cancel: reached from every state of a running conversation
Cancel(u, upd) ==
    /\ Routed(u, upd, "cancel")
    /\ user_data' = [user_data EXCEPT ![u] = None]
    /\ Handled(u, upd, END, Reply("cancelled"))

\* as ButtonCallback, every button starting a new post
ButtonCallback_AnyData(u, upd) ==
    /\ Routed(u, upd, "button_callback")
    /\ SetPost(u, EmptyPost)
    /\ Handled(u, upd, state[u], Reply("ask_image"))

\* button_callback: callback queries the ConversationHandler did not take.
\* It awaits new_post for cmd_newpost and drops the state new_post returns.
ButtonCallback(u, upd) ==
    /\ Routed(u, upd, "button_callback")
    /\ IF upd.data = "cmd_newpost"
       THEN /\ SetPost(u, EmptyPost)
            /\ Handled(u, upd, state[u], Reply("ask_image"))
       ELSE /\ UNCHANGED user_data
            /\ Handled(u, upd, state[u],
                       IF upd.data \in {"cmd_listchats", "cmd_help", "cmd_start"}
                       THEN Reply("menu") ELSE Reply("none"))

\* start, help_command, list_chats as command handlers
MenuCommand(u, upd) ==
    /\ Routed(u, upd, "menu")
    /\ UNCHANGED user_data
    /\ Handled(u, upd, state[u], Reply("menu"))

\* no handler takes the update
Unhandled(u, upd) ==
    /\ Routed(u, upd, "none")
    /\ UNCHANGED user_data
    /\ Handled(u, upd, state[u], Reply("none"))

\* --------------------------------------------------------------- registry
ChatIds(cs) == [i \in 1..Len(cs) |-> cs[i].id]
Stored(c) == \E i \in 1..Len(chats) : chats[i].id = c

\* ChatStorage.add_chat: a stored key keeps its place, a new one goes last
\* (added_at, the time of the call, is left out: nothing reads it)
add_chat(cs, c, title, type) ==
    LET info == [id |-> c, title |-> title, type |-> type]
    IN  IF \E i \in 1..Len(cs) : cs[i].id = c
        THEN [i \in 1..Len(cs) |-> IF cs[i].id = c THEN info ELSE cs[i]]
        ELSE Append(cs, info)

\* ChatStorage.remove_chat
remove_chat(cs, c) == SelectSeq(cs, LAMBDA info : info.id # c)

\* a message that reports new members of chat c; who: the bot itself or
\* another user
NewChatMembers(c, who) == Update(0, "new_chat_members", who, <<>>, c)
MyChatMember(c, status) == Update(0, "my_chat_member", status, <<>>, c)

\* a call made to a chat, and what it returned
Call(m, c, r) == [method |-> m, chat_id |-> c, result |-> r]

\* track_chat: runs for every message that reports new members of chat c,
\* stores the chat and welcomes it
TrackChat(c, who) ==
    /\ Ready(NewChatMembers(c, who))
    /\ AppHandler(END, NewChatMembers(c, who)) = "track_chat"
    /\ IF ChatTypeOf(c) \in {"group", "supergroup", "channel"}
       THEN /\ chats' = add_chat(chats, c, ChatTitle(c), ChatTypeOf(c))
            \* the welcome message, sent to the chat; an exception is logged
            /\ \E sent \in {"ok", "error"} :
                  calls' = <<Call("reply_text", c, sent)>>
       ELSE /\ chats' = chats
            /\ calls' = <<>>
    /\ last' = NewChatMembers(c, who)
    /\ reply' = Reply("none")
    /\ queue' = Rest
    /\ UNCHANGED <<state, user_data, bc>>

\* as IsRemoved, every status but member
IsRemoved_NotMember(status) == status # "member"

\* my_chat_member.new_chat_member.status in ['left', 'kicked']
IsRemoved(status) == status \in {"left", "kicked"}

\* track_chat_removal: the bot's own status in chat c changed
TrackChatRemoval(c, status) ==
    /\ Ready(MyChatMember(c, status))
    /\ AppHandler(END, MyChatMember(c, status)) = "track_chat_removal"
    /\ chats' = IF IsRemoved(status) THEN remove_chat(chats, c) ELSE chats
    /\ last' = MyChatMember(c, status)
    /\ reply' = Reply("none")
    /\ calls' = <<>>
    /\ queue' = Rest
    /\ UNCHANGED <<state, user_data, bc>>

\* -------------------------------------------------------------- broadcast
Failure(title, reason) == [name |-> title, reason |-> reason]

\* as NoChats, the test left out
NoChats_Never(cs) == FALSE

\* not chats
NoChats(cs) == cs = <<>>

\* confirm_send up to the loop: no chats ends the conversation at once and
\* leaves user_data as it is
ConfirmSend(u, upd) ==
    /\ Routed(u, upd, "confirm_send")
    /\ IF ~HasPost(u) THEN Raised(u, upd)
       ELSE IF NoChats(chats)
       THEN /\ UNCHANGED user_data
            /\ Handled(u, upd, END, Reply("no_chats"))
       ELSE /\ bc' = [pc |-> "loop", user |-> u, i |-> 1,
                      targets |-> ChatIds(chats),
                      success_count |-> 0, failed_count |-> 0,
                      failed_chats |-> <<>>]
            /\ last' = upd
            /\ reply' = [Reply("broadcasting") EXCEPT !.total = Len(chats)]
            /\ calls' = <<>>
            /\ queue' = Rest
            /\ UNCHANGED <<state, user_data, chats>>

\* as IsAdmin, a plain member passing too
IsAdmin_Member(status) == status \in {"administrator", "creator", "member"}

\* as IsAdmin, the creator only
IsAdmin_CreatorOnly(status) == status = "creator"

\* chat_member.status in ['administrator', 'creator']
IsAdmin(status) == status \in {"administrator", "creator"}

\* as RecordSuccess, the success not counted
RecordSuccess_Uncounted(b) == [b EXCEPT !.i = @ + 1]

\* the loop moves on after a chat that was sent to
RecordSuccess(b) == [b EXCEPT !.i = @ + 1, !.success_count = @ + 1]

\* as RecordNotAdmin, the failure listed but not counted
RecordNotAdmin_Uncounted(b, chat) ==
    [b EXCEPT !.i = @ + 1,
              !.failed_chats = Append(@, Failure(chat.title, NOT_ADMIN))]

\* the loop moves on after a chat where the bot is not an admin
RecordNotAdmin(b, chat) ==
    [b EXCEPT !.i = @ + 1, !.failed_count = @ + 1,
              !.failed_chats = Append(@, Failure(chat.title, NOT_ADMIN))]

\* as OnException, the exception ending the loop
OnException_Break(b, chat, e) ==
    [b EXCEPT !.i = Len(b.targets) + 1, !.failed_count = @ + 1,
              !.failed_chats = Append(@, Failure(chat.title, Take(e, ReasonLen)))]

\* the except clause: e is str(e) of the exception of this pass
OnException(b, chat, e) ==
    [b EXCEPT !.i = @ + 1, !.failed_count = @ + 1,
              !.failed_chats = Append(@, Failure(chat.title, Take(e, ReasonLen)))]

\* send_photo when the post has an image, else send_message
SendMethod(post) ==
    IF IsSome(post.image) /\ Get(post.image) # ""
    THEN "send_photo" ELSE "send_message"

\* one pass of the loop over chats.items()
BroadcastStep ==
    /\ bc.pc = "loop"
    /\ bc.i <= Len(chats)
    /\ LET chat == chats[bc.i]
           query(r) == Call("get_chat_member", chat.id, r)
           send(r) == Call(SendMethod(Post(bc.user)), chat.id, r)
       IN  \E status \in Statuses \cup {"error"} :
             IF status = "error"
             THEN /\ calls' = Append(calls, query("error"))
                  /\ bc' = OnException(bc, chat, QueryError)
             ELSE IF ~IsAdmin(status)
             THEN /\ calls' = Append(calls, query(status))
                  /\ bc' = RecordNotAdmin(bc, chat)
             ELSE \E sent \in {"ok", "error"} :
                  /\ calls' = calls \o <<query(status), send(sent)>>
                  /\ bc' = IF sent = "ok" THEN RecordSuccess(bc)
                           ELSE OnException(bc, chat, SendError)
    /\ UNCHANGED <<state, user_data, chats, last, reply, queue>>

\* as Report, the newest failures shown first
Report_NewestFirst ==
    [kind |-> "report",
     success |-> bc.success_count,
     failed |-> bc.failed_count,
     total |-> Len(chats),
     shown |-> Take([k \in 1..Len(bc.failed_chats) |->
                       bc.failed_chats[Len(bc.failed_chats) + 1 - k]],
                    ShownFailures),
     more |-> IF Len(bc.failed_chats) > ShownFailures
              THEN Len(bc.failed_chats) - ShownFailures ELSE 0]

\* the result message of confirm_send
Report ==
    [kind |-> "report",
     success |-> bc.success_count,
     failed |-> bc.failed_count,
     total |-> Len(chats),
     shown |-> Take(bc.failed_chats, ShownFailures),
     more |-> IF Len(bc.failed_chats) > ShownFailures
              THEN Len(bc.failed_chats) - ShownFailures ELSE 0]

\* as BroadcastFinish, the report not shown
BroadcastFinish_NoReport ==
    /\ bc.pc = "loop"
    /\ bc.i > Len(chats)
    /\ user_data' = [user_data EXCEPT ![bc.user] = None]
    /\ state' = [state EXCEPT ![bc.user] = END]
    /\ bc' = BcIdle
    /\ UNCHANGED <<chats, last, calls, queue, reply>>

\* confirm_send after the loop
BroadcastFinish ==
    /\ bc.pc = "loop"
    /\ bc.i > Len(chats)
    /\ reply' = Report
    /\ user_data' = [user_data EXCEPT ![bc.user] = None]
    /\ state' = [state EXCEPT ![bc.user] = END]
    /\ bc' = BcIdle
    /\ UNCHANGED <<chats, last, calls, queue>>

\* ---------------------------------------------------------- specification
\* the updates user u can send, with texts drawn from T
Updates(u, T) ==
    {Command(u, c) : c \in Commands}
    \cup {Text(u, t) : t \in T}
    \cup {Photo(u, f) : f \in PhotoIds}
    \cup {Callback(u, d) : d \in CallbackData}

Operator(u, upd) ==
    \/ NewPost(u, upd)
    \/ HandleImage(u, upd)
    \/ SkipImage(u, upd)
    \/ HandleTitle(u, upd)
    \/ HandleDescription(u, upd)
    \/ SkipDescription(u, upd)
    \/ HandleUrl(u, upd)
    \/ SkipUrl(u, upd)
    \/ ConfirmSend(u, upd)
    \/ Cancel(u, upd)
    \/ ButtonCallback(u, upd)
    \/ MenuCommand(u, upd)
    \/ Unhandled(u, upd)

Next ==
    \/ \E u \in Operators : \E upd \in Updates(u, TextInputs) : Operator(u, upd)
    \/ \E c \in Chats \cup {PrivateChat} : \E who \in {"bot", "other"} :
          TrackChat(c, who)
    \/ \E c \in Chats : \E status \in NewStatuses : TrackChatRemoval(c, status)
    \/ BroadcastStep
    \/ BroadcastFinish

Spec == Init /\ [][Next]_vars

\* The wizard with the texts at the limits of each step: each text step
\* is given its own inputs, and no chat is ever stored.
NextText ==
    \E u \in Operators :
        \/ \E upd \in Updates(u, {TxtShort}) :
              \/ NewPost(u, upd)
              \/ HandleImage(u, upd)
              \/ SkipImage(u, upd)
              \/ SkipDescription(u, upd)
              \/ SkipUrl(u, upd)
              \/ ConfirmSend(u, upd)
              \/ Cancel(u, upd)
              \/ ButtonCallback(u, upd)
              \/ MenuCommand(u, upd)
              \/ Unhandled(u, upd)
        \/ \E t \in TitleInputs : HandleTitle(u, Text(u, t))
        \/ \E t \in DescriptionInputs : HandleDescription(u, Text(u, t))
        \/ \E t \in UrlInputs : HandleUrl(u, Text(u, t))

SpecText == Init /\ [][NextText]_vars

\* Updates that arrive while confirm_send runs. The application handles one
\* update at a time, so they wait until confirm_send has returned.
Arrivals ==
    {NewChatMembers(c, "bot") : c \in Chats}
        \cup {MyChatMember(c, status) : c \in Chats, status \in {"left", "administrator"}}
        \cup {Callback(u, "cancel") : u \in Operators}
        \cup {Command(u, "newpost") : u \in Operators}

\* as Arrive, the handler of a my_chat_member update run at once
Arrive_Concurrent(upd) ==
    /\ bc.pc = "loop"
    /\ upd.kind = "my_chat_member"
    /\ chats' = IF IsRemoved(upd.data) THEN remove_chat(chats, upd.chat) ELSE chats
    /\ UNCHANGED <<state, user_data, bc, last, calls, reply, queue>>

\* an update arrives during the loop of confirm_send
Arrive(upd) ==
    /\ bc.pc = "loop"
    /\ Len(queue) < MaxQueue
    /\ queue' = Append(queue, upd)
    /\ UNCHANGED <<state, user_data, chats, bc, last, calls, reply>>

\* one operator with a post of a title only; chats come and go, also while
\* a broadcast runs
NextQueue ==
    \/ \E u \in Operators :
          \/ NewPost(u, Command(u, "newpost"))
          \/ SkipImage(u, Callback(u, "skip_image"))
          \/ HandleTitle(u, Text(u, TxtShort))
          \/ SkipDescription(u, Callback(u, "skip_description"))
          \/ SkipUrl(u, Callback(u, "skip_url"))
          \/ ConfirmSend(u, Callback(u, "confirm_send"))
          \/ Cancel(u, Callback(u, "cancel"))
          \/ ButtonCallback(u, Callback(u, "cancel"))
    \/ \E c \in Chats : TrackChat(c, "bot")
    \/ \E c \in Chats : \E status \in {"left", "administrator"} :
          TrackChatRemoval(c, status)
    \/ BroadcastStep
    \/ BroadcastFinish
    \/ \E upd \in Arrivals : Arrive(upd)

SpecQueue == Init /\ [][NextQueue]_vars

\* Every call that confirm_send awaits returns or raises, and the event
\* loop then resumes confirm_send: a pass of the loop that can be made is
\* made, and so is the end of the loop.
FairQueue == SpecQueue /\ WF_vars(BroadcastStep) /\ WF_vars(BroadcastFinish)

\* the updates of the wizard, and one menu command
WizardUpdates(u) ==
    {Command(u, c) : c \in {"newpost", "cancel", "help"}}
    \cup {Text(u, TxtUrl), Photo(u, "f1")}
    \cup {Callback(u, d) : d \in {"cmd_newpost", "skip_image", "skip_description",
                                  "skip_url", "confirm_send", "cancel"}}

\* The bot starts with the chats of an earlier run, loaded from the chats
\* file: one chat more than the report lists failures.
ManyChats == ShownFailures + 1
LoadedChats ==
    [i \in 1..ManyChats |->
        [id |-> PrivateChat + i, title |-> ChatTitle(PrivateChat + i),
         type |-> ChatTypeOf(PrivateChat + i)]]

InitMany ==
    /\ state = [u \in Users |-> END]
    /\ user_data = [u \in Users |-> None]
    /\ chats = LoadedChats
    /\ bc = BcIdle
    /\ last = NoUpdate
    /\ calls = <<>>
    /\ reply = Reply("none")
    /\ queue = <<>>

\* one operator sends a post of a title only to the loaded chats
NextMany ==
    \/ \E u \in Operators :
          \/ NewPost(u, Command(u, "newpost"))
          \/ SkipImage(u, Callback(u, "skip_image"))
          \/ HandleTitle(u, Text(u, TxtShort))
          \/ SkipDescription(u, Callback(u, "skip_description"))
          \/ SkipUrl(u, Callback(u, "skip_url"))
          \/ ConfirmSend(u, Callback(u, "confirm_send"))
    \/ BroadcastStep
    \/ BroadcastFinish

SpecMany == InitMany /\ [][NextMany]_vars

\* two operators, each in a conversation of their own, and at most one chat
NextTwo ==
    \/ \E u \in Users : \E upd \in WizardUpdates(u) : Operator(u, upd)
    \/ TrackChat(1, "bot")
    \/ BroadcastStep
    \/ BroadcastFinish

SpecTwo == Init /\ [][NextTwo]_vars

TypeOK ==
    /\ \A u \in Users : state[u] \in {END, UPLOADING_IMAGE, ENTERING_TITLE,
                                       ENTERING_DESCRIPTION, ENTERING_URL, PREVIEW}
    /\ bc.pc \in {"idle", "loop"}
    /\ bc.pc = "loop" => HasPost(bc.user) /\ state[bc.user] = PREVIEW
    /\ Len(queue) <= MaxQueue
    /\ queue # <<>> => \A i \in 1..Len(queue) : queue[i] \in Arrivals

\* ============================================================= properties
InFlight == {UPLOADING_IMAGE, ENTERING_TITLE, ENTERING_DESCRIPTION,
             ENTERING_URL, PREVIEW}

\* the broadcast of `last` has ended
BroadcastDone == Idle /\ IsCallback(last, "confirm_send") /\ calls # <<>>

IsQuery(c) == c.method = "get_chat_member"
IsSend(c) == c.method \in {"send_message", "send_photo"}
QueryCalls == SelectSeq(calls, IsQuery)
QueriedIds == [k \in 1..Len(QueryCalls) |-> QueryCalls[k].chat_id]
\* calls that make their destination a failure: a call that raised, or a
\* membership query answered with a status other than administrator, creator
NotAdminCall(c) ==
    IsQuery(c) /\ c.result \notin {"administrator", "creator", "error"}
FailingCall(c) == c.result = "error" \/ NotAdminCall(c)
ErrorCalls == {i \in 1..Len(calls) : calls[i].result = "error"}
NotAdminCalls == {i \in 1..Len(calls) : NotAdminCall(calls[i])}
\* the failures listed so far (with at most ShownFailures chats the report
\* shows them all)
Failures == IF bc.pc = "loop" THEN bc.failed_chats ELSE reply.shown
TitleOfStored(c) == (CHOOSE info \in {chats[i] : i \in 1..Len(chats)} : info.id = c).title

\* ---- C1
\* C1: when a broadcast over a non-empty registry ends, the report's success
\* and failure counts add up to its total, and the total is the number of
\* chats that were stored when the broadcast started.
C1_CountsAddUp ==
    [][(bc.pc = "loop" /\ bc'.pc = "idle") =>
          /\ reply'.kind = "report"
          /\ reply'.success + reply'.failed = reply'.total
          /\ reply'.total = Len(bc.targets)
          /\ reply.kind = "broadcasting" /\ reply'.total = reply.total]_vars

\* a report with a success and a failure
C1_Witness ==
    BroadcastDone /\ reply.kind = "report"
    /\ reply.success > 0 /\ reply.failed > 0

\* ---- C2
\* C2: an exception of get_chat_member or of a send is one failure for its
\* chat and does not end the loop: every chat before the loop index has been
\* queried once, in stored order, each raised call is one listed failure,
\* and a broadcast that has ended has queried every stored chat and shown
\* the report.
C2_ErrorsDoNotAbort ==
    /\ bc.pc = "loop" =>
          /\ QueriedIds = SubSeq(bc.targets, 1, bc.i - 1)
          /\ bc.failed_count = Cardinality(ErrorCalls) + Cardinality(NotAdminCalls)
          /\ Len(bc.failed_chats) = bc.failed_count
          /\ Cardinality({k \in 1..Len(bc.failed_chats) :
                             bc.failed_chats[k].reason # NOT_ADMIN})
                = Cardinality(ErrorCalls)
    /\ BroadcastDone =>
          /\ reply.kind = "report"
          /\ QueriedIds = ChatIds(chats)
          /\ reply.failed = Cardinality(ErrorCalls) + Cardinality(NotAdminCalls)

\* a broadcast has ended in which a call raised for the first chat and a
\* later chat was sent to
C2_Witness ==
    /\ BroadcastDone /\ reply.kind = "report"
    /\ Len(calls) > 1 /\ calls[1].result = "error"
    /\ \E j \in 2..Len(calls) : IsSend(calls[j]) /\ calls[j].result = "ok"

\* ---- C3
\* C3: a chat whose membership query answers a status other than
\* administrator or creator is never sent to, has one failure "not admin"
\* listed at its place among the failures, and the loop goes on after it.
C3_NotAdminNeverSent ==
    \A i \in 1..Len(calls) :
        NotAdminCall(calls[i]) =>
            LET c == calls[i].chat_id
                pos == Cardinality({q \in 1..i : FailingCall(calls[q])})
            IN  /\ \A j \in 1..Len(calls) :
                       calls[j].chat_id = c => (j = i /\ ~IsSend(calls[j]))
                /\ pos <= Len(Failures)
                /\ Failures[pos] = Failure(TitleOfStored(c), NOT_ADMIN)
                /\ Cardinality({k \in 1..Len(Failures) :
                                   Failures[k].reason = NOT_ADMIN})
                      = Cardinality(NotAdminCalls)
                /\ bc.pc = "loop" => bc.i = Len(QueryCalls) + 1

\* a broadcast has ended in which the first chat was not admin and the next
\* chat was sent to
C3_Witness ==
    /\ BroadcastDone /\ reply.kind = "report"
    /\ Len(calls) = 3 /\ NotAdminCall(calls[1]) /\ IsSend(calls[3])
    /\ reply.success = 1 /\ reply.failed = 1

\* ------------------------------------------------- signals, as seen in a step
\* the step handles an update of user u (in the primed state `last` is it)
Handles(u) == Idle /\ last'.user = u
IsStart(upd) == IsCommand(upd, "newpost") \/ IsCallback(upd, "cmd_newpost")
IsCancel(upd) == IsCommand(upd, "cancel") \/ IsCallback(upd, "cancel")

\* the text without the whitespace at its ends
Trimmed(s) ==
    LET keep == {i \in 1..Len(s) : s[i] \notin {" ", "\t", "\n"}}
    IN  IF keep = {} THEN <<>>
        ELSE SubSeq(s, CHOOSE i \in keep : \A j \in keep : i <= j,
                       CHOOSE i \in keep : \A j \in keep : i >= j)
HasPipe(s) == \E i \in 1..Len(s) : s[i] = "|"
FirstPipe(s) == CHOOSE i \in 1..Len(s) : s[i] = "|" /\ \A j \in 1..(i - 1) : s[j] # "|"
LeftOfPipe(s) == Trimmed(SubSeq(s, 1, FirstPipe(s) - 1))
RightOfPipe(s) == Trimmed(SubSeq(s, FirstPipe(s) + 1, Len(s)))
HasScheme(s) ==
    \E n \in {7, 8} : Len(s) >= n /\ SubSeq(s, 1, n) \in {HTTP, HTTPS}

\* ---- C4
\* C4: a start signal (/newpost or the cmd_newpost button) of an operator
\* whose conversation is in a wizard state leaves the conversation in
\* UPLOADING_IMAGE with an empty post.
C4_StartRestarts ==
    [][\A u \in Users :
          (Handles(u) /\ IsStart(last') /\ state[u] \in InFlight) =>
              /\ state'[u] = UPLOADING_IMAGE
              /\ user_data'[u] = Some(EmptyPost)]_vars

\* ---- C5
\* C5: once the conversation is past ENTERING_TITLE (description, url,
\* preview, broadcast) the post has a title.
C5_TitlePresent ==
    \A u \in Users :
        state[u] \in {ENTERING_DESCRIPTION, ENTERING_URL, PREVIEW} =>
            HasPost(u) /\ IsSome(Post(u).title)

\* ---- C6
\* C6: a url line accepted in ENTERING_URL whose part right of the first '|'
\* is empty after trimming stores the button text "Click Here", and a stored
\* button text is never the empty string.
C6_DefaultButtonText ==
    [][\A u \in Users :
          (Handles(u) /\ last'.kind = "text" /\ state[u] = ENTERING_URL
             /\ state'[u] = PREVIEW) =>
              /\ Get(user_data'[u]).button_text # Some(<<>>)
              /\ RightOfPipe(last'.text) = <<>> =>
                     Get(user_data'[u]).button_text = Some(CLICK_HERE)]_vars

\* ---- C7
\* C7: the post has a button text exactly when it has a url; leaving
\* ENTERING_URL by skip_url leaves both None, leaving it by a text sets both,
\* and a text that is rejected changes neither.
C7_UrlIffButtonText ==
    [][\A u \in Users :
          /\ IsSome(user_data'[u]) =>
                 (IsSome(Get(user_data'[u]).url)
                     <=> IsSome(Get(user_data'[u]).button_text))
          /\ (Handles(u) /\ state[u] = ENTERING_URL) =>
                 /\ IsCallback(last', "skip_url") =>
                        /\ state'[u] = PREVIEW
                        /\ Get(user_data'[u]).url = None
                        /\ Get(user_data'[u]).button_text = None
                 /\ (last'.kind = "text" /\ state'[u] = PREVIEW) =>
                        /\ IsSome(Get(user_data'[u]).url)
                        /\ IsSome(Get(user_data'[u]).button_text)
                 /\ (last'.kind = "text" /\ state'[u] = ENTERING_URL) =>
                        user_data'[u] = user_data[u]]_vars

\* a preview of a post with a url and a button text
C7_Witness ==
    \E u \in Users :
        /\ state[u] = PREVIEW /\ last.kind = "text"
        /\ IsSome(Post(u).url) /\ IsSome(Post(u).button_text)

\* ---- C8
\* C8: in ENTERING_TITLE a text longer than 200 after trimming leaves the
\* state and user_data as they are; a text of at most 200 becomes the title,
\* trimmed, and the state becomes ENTERING_DESCRIPTION.
C8_TitleLimit ==
    [][\A u \in Users :
          (Handles(u) /\ last'.kind = "text" /\ state[u] = ENTERING_TITLE) =>
              IF Len(Trimmed(last'.text)) > 200
              THEN /\ state'[u] = ENTERING_TITLE
                   /\ user_data'[u] = user_data[u]
              ELSE /\ state'[u] = ENTERING_DESCRIPTION
                   /\ Get(user_data'[u]).title = Some(Trimmed(last'.text))]_vars

\* a title of exactly 200 characters was stored from a longer text
C8_Witness ==
    \E u \in Users :
        /\ state[u] = ENTERING_DESCRIPTION /\ last.kind = "text"
        /\ Len(last.text) > 200
        /\ Post(u).title = Some(Trimmed(last.text))
        /\ Len(Get(Post(u).title)) = 200

\* ---- C9
\* C9: in ENTERING_URL a text without '|', or with '|' and a trimmed left
\* part that starts with neither http:// nor https://, leaves the state and
\* every field of the post as they are.
C9_UrlRejected ==
    [][\A u \in Users :
          (Handles(u) /\ last'.kind = "text" /\ state[u] = ENTERING_URL
             /\ (~HasPipe(last'.text) \/ ~HasScheme(LeftOfPipe(last'.text)))) =>
              /\ state'[u] = ENTERING_URL
              /\ user_data'[u] = user_data[u]]_vars

\* a line with '|' and no scheme was rejected, the post holding a title
C9_Witness ==
    \E u \in Users :
        /\ state[u] = ENTERING_URL /\ last.kind = "text"
        /\ HasPipe(last.text) /\ ~HasScheme(LeftOfPipe(last.text))
        /\ reply.kind = "invalid_url"
        /\ IsSome(Post(u).title) /\ Post(u).url = None

C11_DraftDiscarded ==
    [][\A u \in Users :
          (state[u] \in InFlight /\ state'[u] = END) =>
              user_data'[u] = None]_vars

\* ---- C12
\* C12: confirm in PREVIEW with no chat stored calls neither get_chat_member
\* nor a send method, shows the "no chats" message instead of a report and
\* ends the conversation.
C12_NoChats ==
    [][\A u \in Users :
          (/\ Handles(u) /\ IsCallback(last', "confirm_send")
           /\ state[u] = PREVIEW /\ chats = <<>>) =>
              /\ state'[u] = END
              /\ reply'.kind = "no_chats"
              /\ calls' = <<>>
              /\ bc' = BcIdle]_vars

\* confirm was pressed in PREVIEW with no chat stored
C12_Witness ==
    \E u \in Users :
        /\ IsCallback(last, "confirm_send") /\ last.user = u
        /\ reply.kind = "no_chats" /\ state[u] = END
        /\ chats = <<>> /\ calls = <<>>

\* ---- C14
\* C14: in ENTERING_DESCRIPTION a text longer than 1000 after trimming leaves
\* the state and user_data as they are; a text of at most 1000 becomes the
\* description, trimmed; the skip button sets the description to None; the
\* last two move to ENTERING_URL.
C14_DescriptionLimit ==
    [][\A u \in Users :
          (Handles(u) /\ state[u] = ENTERING_DESCRIPTION) =>
              /\ last'.kind = "text" =>
                    IF Len(Trimmed(last'.text)) > 1000
                    THEN /\ state'[u] = ENTERING_DESCRIPTION
                         /\ user_data'[u] = user_data[u]
                    ELSE /\ state'[u] = ENTERING_URL
                         /\ user_data'[u] =
                               Some([Post(u) EXCEPT !.description =
                                        Some(Trimmed(last'.text))])
              /\ IsCallback(last', "skip_description") =>
                    /\ state'[u] = ENTERING_URL
                    /\ user_data'[u] =
                          Some([Post(u) EXCEPT !.description = None])]_vars

\* a description of exactly 1000 characters was stored from a longer text
C14_Witness ==
    \E u \in Users :
        /\ state[u] = ENTERING_URL /\ last.kind = "text"
        /\ Len(last.text) > 1000
        /\ Post(u).description = Some(Trimmed(last.text))
        /\ Len(Get(Post(u).description)) = 1000

\* ---- C15
\* C15: a skip button pressed twice in a row (skip_image from
\* UPLOADING_IMAGE, skip_description from ENTERING_DESCRIPTION, skip_url from
\* ENTERING_URL) does what pressing it once does: the second press leaves the
\* state and user_data as the first left them.
SkipData == {"skip_image", "skip_description", "skip_url"}

C15_SkipTwice ==
    [][\A u \in Users : \A d \in SkipData :
          (Handles(u) /\ last = Callback(u, d) /\ last' = Callback(u, d)) =>
              /\ state'[u] = state[u]
              /\ user_data'[u] = user_data[u]]_vars

\* a skip_description press that found the conversation in ENTERING_URL with
\* the description skipped, and did nothing
C15_Witness ==
    \E u \in Users :
        /\ last = Callback(u, "skip_description") /\ reply.kind = "none"
        /\ state[u] = ENTERING_URL
        /\ IsSome(Post(u).title) /\ Post(u).description = None

\* ---- C16
\* C16: the success count is the number of chats of the broadcast whose
\* get_chat_member call returned administrator or creator and whose send
\* call returned; when that is so for every chat, the report counts every
\* chat as a success and none as a failure.
Delivered ==
    {c \in Chats :
        \E i \in 2..Len(calls) :
            /\ IsSend(calls[i]) /\ calls[i].chat_id = c
            /\ calls[i].result = "ok"
            /\ IsQuery(calls[i - 1]) /\ calls[i - 1].chat_id = c
            /\ calls[i - 1].result \in {"administrator", "creator"}}

C16_SuccessCount ==
    /\ bc.pc = "loop" => bc.success_count = Cardinality(Delivered)
    /\ BroadcastDone =>
          /\ reply.success = Cardinality(Delivered)
          /\ (\A i \in 1..Len(calls) : ~FailingCall(calls[i])) =>
                /\ reply.success = Len(QueryCalls)
                /\ reply.success = reply.total
                /\ reply.failed = 0

\* a broadcast over at least two chats has ended with every chat sent to
C16_Witness ==
    /\ BroadcastDone /\ reply.kind = "report"
    /\ Len(QueryCalls) >= 2
    /\ \A i \in 1..Len(calls) : ~FailingCall(calls[i])
    /\ reply.success = Len(QueryCalls) /\ reply.failed = 0

\* ---- C17
\* C17: a broadcast leaves the stored chats as they are, whatever its calls
\* return; a chat leaves the stored chats only in a step that handles a
\* my_chat_member update of that chat with status left or kicked.
StoredIn(cs, c) == \E i \in 1..Len(cs) : cs[i].id = c

C17_RegistryFrame ==
    [][/\ (bc.pc = "loop" \/ bc'.pc = "loop") => chats' = chats
       /\ \A c \in Chats :
             (StoredIn(chats, c) /\ ~StoredIn(chats', c)) =>
                 /\ Idle
                 /\ last' \in {MyChatMember(c, "left"),
                               MyChatMember(c, "kicked")}]_vars

\* a broadcast in which every chat failed has ended and every chat is still
\* stored
C17_Witness ==
    /\ BroadcastDone /\ reply.kind = "report"
    /\ reply.failed = reply.total /\ reply.total >= 2
    /\ ErrorCalls # {} /\ NotAdminCalls # {}
    /\ ChatIds(chats) = QueriedIds

\* ---- C20
\* C20: within one broadcast every chat gets exactly one get_chat_member
\* call and at most one send call; the send is made exactly when the
\* get_chat_member call returned administrator or creator, right after it;
\* a chat whose call failed is not called again.
CallsOf(c, Kind(_)) == {i \in 1..Len(calls) : Kind(calls[i]) /\ calls[i].chat_id = c}

C20_OnePassPerChat ==
    /\ \A c \in Chats :
          /\ Cardinality(CallsOf(c, IsQuery)) <= 1
          /\ Cardinality(CallsOf(c, IsSend)) <= 1
          /\ (bc.pc = "loop" /\ \E k \in 1..(bc.i - 1) : bc.targets[k] = c) =>
                Cardinality(CallsOf(c, IsQuery)) = 1
          /\ (BroadcastDone /\ StoredIn(chats, c)) =>
                Cardinality(CallsOf(c, IsQuery)) = 1
    /\ \A i \in 1..Len(calls) :
          /\ IsSend(calls[i]) =>
                /\ i > 1 /\ IsQuery(calls[i - 1])
                /\ calls[i - 1].chat_id = calls[i].chat_id
                /\ calls[i - 1].result \in {"administrator", "creator"}
          /\ (IsQuery(calls[i]) /\ calls[i].result \in {"administrator", "creator"}) =>
                /\ i < Len(calls) /\ IsSend(calls[i + 1])
                /\ calls[i + 1].chat_id = calls[i].chat_id
          /\ FailingCall(calls[i]) =>
                \A j \in (i + 1)..Len(calls) : calls[j].chat_id # calls[i].chat_id

\* a broadcast has ended in which the first chat's send raised and the
\* second chat, with the bot as creator, was sent to
C20_Witness ==
    /\ BroadcastDone /\ Len(calls) = 4
    /\ IsSend(calls[2]) /\ calls[2].result = "error"
    /\ calls[3].result = "creator" /\ calls[4].result = "ok"
    /\ calls[1].chat_id # calls[3].chat_id

\* ---- C19
\* C19: a chat enters the stored chats only in a step in which the bot sees
\* itself added to that chat, a group, supergroup or channel; a stored chat
\* is removed exactly when the bot's own status there becomes left or
\* kicked; a broadcast attempts stored chats only.
C19_RegistryEntry ==
    [][\A c \in Chats \cup {PrivateChat} :
          /\ (~StoredIn(chats, c) /\ StoredIn(chats', c)) =>
                /\ last' = NewChatMembers(c, "bot")
                /\ ChatTypeOf(c) \in {"group", "supergroup", "channel"}
          /\ (StoredIn(chats, c) /\ ~StoredIn(chats', c)) =>
                last' \in {MyChatMember(c, "left"), MyChatMember(c, "kicked")}
          /\ (Idle /\ last' \in {MyChatMember(c, "left"),
                                 MyChatMember(c, "kicked")}) =>
                ~StoredIn(chats', c)
          /\ (bc'.pc = "loop" /\ ~StoredIn(chats', c)) =>
                \A k \in 1..Len(bc'.targets) : bc'.targets[k] # c]_vars

\* ---- C13
\* C13: the chats a broadcast attempts are the chats stored when it started;
\* a chat added or removed by an update that arrives while the broadcast
\* runs changes neither the chats attempted nor the total of the report, and
\* the broadcast still ends with its report.
C13_Snapshot ==
    [][/\ (bc.pc # "loop" /\ bc'.pc = "loop") =>
             bc'.targets = ChatIds(chats)
       /\ bc.pc = "loop" =>
             /\ chats' = chats
             /\ bc'.pc = "loop" => bc'.targets = bc.targets
       /\ (bc.pc = "loop" /\ bc'.pc = "idle") =>
             /\ calls' = calls /\ QueriedIds = bc.targets
             /\ reply'.kind = "report"
             /\ reply'.total = Len(bc.targets)
             /\ state'[bc.user] = END]_vars

\* a broadcast has ended with its report over every chat, one of which the
\* bot left while the broadcast ran; the update still waits
C13_Witness ==
    /\ BroadcastDone /\ reply.kind = "report"
    /\ queue # <<>>
    /\ \E c \in Chats :
          /\ Head(queue) = MyChatMember(c, "left")
          /\ StoredIn(chats, c)
          /\ \E k \in 1..Len(QueriedIds) : QueriedIds[k] = c
    /\ reply.total = Len(chats) /\ reply.total = Len(QueriedIds)

\* ---- C18
\* C18: whatever the interleaving of two operators' updates, a step that
\* handles an update of one operator (a wizard signal, or a pass of that
\* operator's broadcast) leaves the other operator's conversation state and
\* user_data as they are.
C18_OperatorsApart ==
    [][\A a \in Users : \A b \in Users \ {a} :
          last'.user = a =>
              /\ state'[b] = state[b]
              /\ user_data'[b] = user_data[b]]_vars

\* operator 2 has just finished a broadcast while operator 1 waits in
\* PREVIEW with a post of their own
C18_Witness ==
    /\ BroadcastDone /\ last.user = 2 /\ reply.kind = "report"
    /\ state[2] = END /\ user_data[2] = None
    /\ state[1] = PREVIEW /\ IsSome(Post(1).title) /\ IsSome(Post(1).image)

\* ---- C21
\* C21: the state of a conversation moves along UPLOADING_IMAGE,
\* ENTERING_TITLE, ENTERING_DESCRIPTION, ENTERING_URL, PREVIEW, END only:
\* but for a start signal, a step keeps the state, or moves it to the next
\* state on an input of the present state, or ends the conversation on a
\* cancel or on confirm in PREVIEW; an input of another state (a photo, a
\* text, a skip button, the confirm button) leaves the state and user_data
\* as they are.
Accepts(s, upd) ==
    \/ s = UPLOADING_IMAGE /\ (upd.kind = "photo" \/ IsCallback(upd, "skip_image"))
    \/ s = ENTERING_TITLE /\ upd.kind = "text"
    \/ s = ENTERING_DESCRIPTION
          /\ (upd.kind = "text" \/ IsCallback(upd, "skip_description"))
    \/ s = ENTERING_URL /\ (upd.kind = "text" \/ IsCallback(upd, "skip_url"))
    \/ s = PREVIEW /\ IsCallback(upd, "confirm_send")
StepInput(upd) == \E s \in InFlight : Accepts(s, upd)

C21_ForwardOnly ==
    [][\A u \in Users :
          /\ (Handles(u) /\ state[u] \in InFlight /\ ~IsStart(last')) =>
                /\ state'[u] \in {state[u], END}
                      \cup {s \in InFlight : s = state[u] + 1}
                /\ state'[u] = state[u] + 1 => Accepts(state[u], last')
                /\ state'[u] = END =>
                      \/ IsCancel(last')
                      \/ state[u] = PREVIEW /\ IsCallback(last', "confirm_send")
                /\ (StepInput(last') /\ ~Accepts(state[u], last')) =>
                      /\ state'[u] = state[u]
                      /\ user_data'[u] = user_data[u]
          /\ (bc.pc = "loop" /\ state'[u] # state[u]) =>
                state[u] = PREVIEW /\ state'[u] = END /\ bc.user = u
          /\ (state[u] = END /\ state'[u] # END) =>
                state'[u] = UPLOADING_IMAGE /\ IsStart(last')]_vars

\* a photo was sent in ENTERING_URL, after the title was given, and nothing
\* came of it
C21_Witness ==
    \E u \in Users :
        /\ last.kind = "photo" /\ last.user = u /\ reply.kind = "none"
        /\ state[u] = ENTERING_URL /\ IsSome(Post(u).title)

\* ---- C22
\* C22: the failures of a broadcast are one entry for every chat that
\* failed, as many as the failure count, in the order in which the chats
\* were processed; the report lists the first ShownFailures of them in that
\* order and counts the rest.
FailedCalls == SelectSeq(calls, FailingCall)
ReasonOf(c) ==
    IF NotAdminCall(c) THEN NOT_ADMIN
    ELSE IF IsQuery(c) THEN Take(QueryError, ReasonLen)
    ELSE Take(SendError, ReasonLen)
ExpectedFailures ==
    [k \in 1..Len(FailedCalls) |->
        Failure(TitleOfStored(FailedCalls[k].chat_id), ReasonOf(FailedCalls[k]))]

C22_FailuresInOrder ==
    /\ bc.pc = "loop" =>
          /\ bc.failed_chats = ExpectedFailures
          /\ Len(bc.failed_chats) = bc.failed_count
          /\ \A k \in 1..(Len(FailedCalls) - 1) :
                \E i, j \in 1..Len(bc.targets) :
                    /\ i < j
                    /\ bc.targets[i] = FailedCalls[k].chat_id
                    /\ bc.targets[j] = FailedCalls[k + 1].chat_id
    /\ BroadcastDone =>
          /\ reply.failed = Len(ExpectedFailures)
          /\ reply.shown = Take(ExpectedFailures, ShownFailures)
          /\ Len(reply.shown) + reply.more = reply.failed

\* a broadcast has ended in which more chats failed than the report lists
C22_Witness ==
    /\ BroadcastDone /\ reply.kind = "report"
    /\ reply.failed > ShownFailures /\ reply.more > 0
    /\ Len(reply.shown) = ShownFailures
    /\ ErrorCalls # {} /\ NotAdminCalls # {}

\* ---- C23
\* C23: a broadcast that has started over stored chats, whose calls all
\* return or raise, comes to its end with every stored chat queried and the
\* report shown; a cancel or a start signal of the operator that arrives in
\* between does not end it.
C23_RunsToCompletion ==
    bc.pc = "loop" ~>
        (/\ BroadcastDone /\ reply.kind = "report"
         /\ QueriedIds = ChatIds(chats)
         /\ reply.total = Len(QueriedIds))

\* a broadcast over two chats or more has ended with its report while the
\* operator's cancel, pressed during the broadcast, still waits
C23_Witness ==
    /\ BroadcastDone /\ reply.kind = "report"
    /\ Len(QueriedIds) >= 2 /\ QueriedIds = ChatIds(chats)
    /\ queue # <<>>
    /\ \E u \in Operators : Head(queue) = Callback(u, "cancel")

\* ---- C24
\* C24: calls to chats are made only by a broadcast, and a broadcast starts
\* only on a confirm_send press handled in PREVIEW; a confirm_send press in
\* any other state, after a cancel or after the broadcast has ended, makes
\* no call and starts nothing, and the end of a broadcast ends the
\* conversation, so that one preview gives one broadcast at most.
MakesCalls == calls' # calls /\ calls' # <<>>
StartsOnConfirm ==
    /\ (bc.pc = "idle" /\ bc'.pc = "loop") =>
          \E u \in Users :
              /\ Handles(u) /\ IsCallback(last', "confirm_send")
              /\ state[u] = PREVIEW /\ bc'.user = u
    /\ \A u \in Users :
          (Handles(u) /\ IsCallback(last', "confirm_send")
             /\ state[u] # PREVIEW) =>
                /\ calls' = <<>> /\ bc' = BcIdle
                /\ state'[u] = state[u]
    /\ (bc.pc = "loop" /\ bc'.pc = "idle") => state'[bc.user] = END

Fields == {"image", "title", "description", "url", "button_text"}
OwnFields(s) ==
    IF s = UPLOADING_IMAGE THEN {"image"}
    ELSE IF s = ENTERING_TITLE THEN {"title"}
    ELSE IF s = ENTERING_DESCRIPTION THEN {"description"}
    ELSE IF s = ENTERING_URL THEN {"url", "button_text"}
    ELSE {}

C25_StepFrame ==
    [][\A u \in Users :
          (/\ Handles(u) /\ Accepts(state[u], last')
           /\ state[u] \in {UPLOADING_IMAGE, ENTERING_TITLE,
                            ENTERING_DESCRIPTION, ENTERING_URL}) =>
              /\ IsSome(user_data[u]) /\ IsSome(user_data'[u])
              /\ \A f \in Fields \ OwnFields(state[u]) :
                    Get(user_data'[u])[f] = Get(user_data[u])[f]
              /\ state'[u] # state[u] =>
                    \E f \in OwnFields(state[u]) :
                        \/ IsSome(Get(user_data'[u])[f])
                        \/ last'.kind = "callback"]_vars

\* PREVIEW was reached by a url line with the image, the title and the
\* description of the earlier steps in the post
C25_Witness ==
    \E u \in Users :
        /\ state[u] = PREVIEW /\ last.kind = "text" /\ last.user = u
        /\ reply.kind = "preview_photo"
        /\ IsSome(Post(u).image) /\ IsSome(Post(u).title)
        /\ IsSome(Post(u).description) /\ IsSome(Post(u).url)

====
